---- MODULE Spec2Model ----
(***************************************************************************)
(* Model of the Heidelberg bus bot (src/heidelberg_bus_bot.py): the        *)
(* in-memory schedule store, the CSV upload, and the command and button    *)
(* handlers that answer from the store and the route catalog.              *)
(*                                                                         *)
(* Text that the code splits or parses character by character (route       *)
(* lists, route identifiers, callback data) is a sequence of one-character *)
(* strings.  Text that the code only compares or echoes (dates, times,     *)
(* umlauf labels) is an atomic string.  A chat command's arguments are the *)
(* whitespace-separated words of the message, so a station name is the     *)
(* sequence of its words.                                                  *)
(***************************************************************************)
EXTENDS Integers, Sequences, FiniteSets, TLC

VARIABLES WORK_SCHEDULES, update, reply

vars == <<WORK_SCHEDULES, update, reply>>

----------------------------------------------------------------------------
(* Bounds of the model *)

\* rows of an uploaded file
MaxRows == 3
\* shifts the store may hold before uploads stop
MaxStored == 6
\* words of a /navigate message after the command
MaxArgs == 4

----------------------------------------------------------------------------
(* Python primitives used by the handlers *)

\* str.split(sep) for a one-character separator
RECURSIVE split(_, _)
split(s, sep) ==
    IF \A i \in 1..Len(s) : s[i] # sep
    THEN <<s>>
    ELSE LET k == CHOOSE i \in 1..Len(s) :
                      s[i] = sep /\ \A j \in 1..(i - 1) : s[j] # sep
         IN  <<SubSeq(s, 1, k - 1)>> \o split(SubSeq(s, k + 1, Len(s)), sep)

\* str.startswith(prefix)
startswith(s, prefix) ==
    Len(s) >= Len(prefix) /\ SubSeq(s, 1, Len(prefix)) = prefix

Digits == <<"0", "1", "2", "3", "4", "5", "6", "7", "8", "9">>

IsDigit(c) == \E d \in 1..Len(Digits) : Digits[d] = c

DigitValue(c) == (CHOOSE d \in 1..Len(Digits) : Digits[d] = c) - 1

\* the decimal text of a natural number, as an f-string writes it
RECURSIVE format_int(_)
format_int(n) ==
    IF n < 10 THEN <<Digits[n + 1]>>
    ELSE format_int(n \div 10) \o <<Digits[(n % 10) + 1]>>

RECURSIVE digits_value(_)
digits_value(s) ==
    IF Len(s) = 0 THEN 0
    ELSE 10 * digits_value(SubSeq(s, 1, Len(s) - 1)) + DigitValue(s[Len(s)])

\* int(s): an optional sign and at least one digit, otherwise ValueError
int(s) ==
    LET signed == Len(s) > 0 /\ s[1] \in {"-", "+"}
        body   == IF signed THEN SubSeq(s, 2, Len(s)) ELSE s
    IN  IF Len(body) = 0 \/ \E i \in 1..Len(body) : ~IsDigit(body[i])
        THEN [ok |-> FALSE, val |-> 0]
        ELSE [ok |-> TRUE,
              val |-> IF signed /\ s[1] = "-" THEN 0 - digits_value(body)
                      ELSE digits_value(body)]

\* list[i]: a negative index counts from the end, anything else outside
\* the list is an IndexError
InRange(list, i) == i >= 0 - Len(list) /\ i < Len(list)

getitem(list, i) == IF i >= 0 THEN list[i + 1] ELSE list[Len(list) + i + 1]

\* a list built element by element, as a loop with append or a list
\* comprehension builds it
list(f) == f \o <<>>

\* str.lower() of one word of a message or of a station name
lower(w) ==
    CASE w \in {"Hauptbahnhof", "HAUPTBAHNHOF"} -> "hauptbahnhof"
      [] w = "Bismarckplatz" -> "bismarckplatz"
      [] w = "Universitätsplatz" -> "universitätsplatz"
      [] w = "Technologiepark" -> "technologiepark"
      [] w = "Betriebshof" -> "betriebshof"
      [] w \in {"Neuenheimer", "NEUENHEIMER"} -> "neuenheimer"
      [] w = "Feld" -> "feld"
      [] w = "Universitätsklinikum" -> "universitätsklinikum"
      [] w = "Hans-Thoma-Platz" -> "hans-thoma-platz"
      [] w = "Handschuhsheim" -> "handschuhsheim"
      [] w = "Dossenheim" -> "dossenheim"
      [] w = "Schriesheim" -> "schriesheim"
      [] w = "Nirgendwo" -> "nirgendwo"
      [] OTHER -> w

\* lower() of a text of several words
lower_name(name) == [i \in 1..Len(name) |-> lower(name[i])]

----------------------------------------------------------------------------
(* The route catalog *)

R31 == <<"3", "1">>
R32 == <<"3", "2">>
R33 == <<"3", "3">>

\* coordinates in units of 0.0001 degree
Station(name, lat, lon) == [name |-> name, coords |-> <<lat, lon>>]

BUS_ROUTES ==
    [r \in {R31, R32, R33} |->
        CASE r = R31 ->
               [name |-> "Route 31",
                stations |-> <<Station(<<"Hauptbahnhof">>, 494037, 86756),
                               Station(<<"Bismarckplatz">>, 494094, 86947),
                               Station(<<"Universitätsplatz">>, 494119, 87089),
                               Station(<<"Technologiepark">>, 494178, 86756)>>]
          [] r = R32 ->
               [name |-> "Route 32",
                stations |-> <<Station(<<"Betriebshof">>, 494178, 86756),
                               Station(<<"Neuenheimer", "Feld">>, 494178, 86756),
                               Station(<<"Universitätsklinikum">>, 494178, 86756),
                               Station(<<"Hans-Thoma-Platz">>, 494178, 86756)>>]
          [] r = R33 ->
               [name |-> "Route 33",
                stations |-> <<Station(<<"Bismarckplatz">>, 494094, 86947),
                               Station(<<"Handschuhsheim">>, 494178, 86756),
                               Station(<<"Dossenheim">>, 494178, 86756),
                               Station(<<"Schriesheim">>, 494178, 86756)>>]]

\* the catalog's keys in the order the dictionary literal lists them
RouteOrder == <<R31, R32, R33>>

get_directions(from_station, to_station) ==
    [drive_from |-> from_station, drive_to |-> to_station]

get_map_link(coords) == [maps_q |-> coords]

----------------------------------------------------------------------------
(* The schedule store *)

Driver == "driver123"

Shift(umlauf, start_time, end_time, routes) ==
    [umlauf |-> umlauf, start_time |-> start_time,
     end_time |-> end_time, routes |-> routes]

InitialSchedules ==
    (Driver :>
        (("2025-04-17" :>
             <<Shift("U1", "08:00", "12:00", <<R31, R32>>),
               Shift("U2", "13:00", "17:00", <<R33>>)>>)
         @@
         ("2025-04-18" :>
             <<Shift("U3", "09:00", "14:00", <<R32, R33>>)>>)))

----------------------------------------------------------------------------
(* What a handler sends back.  kind names the message text, body holds the *)
(* values formatted into it, keyboard is the reply_markup (empty when the  *)
(* handler passes none).  A handler that raises sends nothing.             *)

Reply(kind, body, keyboard) == [kind |-> kind, body |-> body, keyboard |-> keyboard]

Raised(exception) == Reply("raised", exception, <<>>)

InlineKeyboardButton(text, callback_data) ==
    [text |-> text, callback_data |-> callback_data]

Update(handler, input) == [handler |-> handler, input |-> input]

----------------------------------------------------------------------------
(* CSV upload *)

\* csv.DictReader: the row's fields under the header's names; a name the
\* row has no field for maps to None, written <<>>, a field f to <<f>>
DictRow(header, fields) ==
    [c \in {header[i] : i \in 1..Len(header)} |->
        LET i == CHOOSE j \in 1..Len(header) : header[j] = c
        IN  IF i <= Len(fields) THEN <<fields[i]>> ELSE <<>>]

\* process_row with the date's list replaced instead of extended
process_row_overwrite(schedule, row) ==
    IF \E c \in {"date", "umlauf", "start_time", "end_time", "routes"} :
           c \notin DOMAIN row
    THEN [schedule |-> schedule, error |-> "KeyError"]
    ELSE IF row["routes"] = <<>>
    THEN [schedule |-> schedule, error |-> "AttributeError"]
    ELSE [schedule |->
              (row["date"][1] :>
                  <<Shift(row["umlauf"][1], row["start_time"][1], row["end_time"][1],
                          split(row["routes"][1], ","))>>) @@ schedule,
          error |-> ""]

\* process_row with the routes field stored unsplit
process_row_unsplit(schedule, row) ==
    IF \E c \in {"date", "umlauf", "start_time", "end_time", "routes"} :
           c \notin DOMAIN row
    THEN [schedule |-> schedule, error |-> "KeyError"]
    ELSE IF row["routes"] = <<>>
    THEN [schedule |-> schedule, error |-> "AttributeError"]
    ELSE LET date   == row["date"][1]
             bucket == IF date \in DOMAIN schedule THEN schedule[date] ELSE <<>>
         IN  [schedule |->
                  (date :> Append(bucket,
                                  Shift(row["umlauf"][1], row["start_time"][1],
                                        row["end_time"][1], <<row["routes"][1]>>)))
                  @@ schedule,
              error |-> ""]

\* process_row with the date's list created before the routes are read
process_row_key_first(schedule, row) ==
    IF \E c \in {"date", "umlauf", "start_time", "end_time", "routes"} :
           c \notin DOMAIN row
    THEN [schedule |-> schedule, error |-> "KeyError"]
    ELSE LET date   == row["date"][1]
             bucket == IF date \in DOMAIN schedule THEN schedule[date] ELSE <<>>
         IN  IF row["routes"] = <<>>
             THEN [schedule |-> (date :> bucket) @@ schedule,
                   error |-> "AttributeError"]
             ELSE [schedule |->
                       (date :> Append(bucket,
                                       Shift(row["umlauf"][1], row["start_time"][1],
                                             row["end_time"][1],
                                             split(row["routes"][1], ","))))
                       @@ schedule,
                   error |-> ""]

\* the body of the loop over the rows: the store of one driver after the
\* row, and the exception the row raised ("" when none)
process_row(schedule, row) ==
    LET missing == {c \in {"date", "umlauf", "start_time", "end_time", "routes"} :
                        c \notin DOMAIN row}
    IN  IF missing # {}
        THEN [schedule |-> schedule, error |-> "KeyError"]
        ELSE IF row["routes"] = <<>>
        THEN [schedule |-> schedule, error |-> "AttributeError"]
        ELSE LET date   == row["date"][1]
                 routes == split(row["routes"][1], ",")
                 shift  == Shift(row["umlauf"][1], row["start_time"][1],
                                 row["end_time"][1], routes)
                 bucket == IF date \in DOMAIN schedule THEN schedule[date] ELSE <<>>
             IN  [schedule |-> (date :> Append(bucket, shift)) @@ schedule,
                  error |-> ""]

\* the loop over the rows: stops at the first row that raises; DictReader
\* skips rows without any field
RECURSIVE process_rows(_, _, _)
process_rows(schedule, header, rows) ==
    IF Len(rows) = 0 THEN [schedule |-> schedule, error |-> ""]
    ELSE IF Len(Head(rows)) = 0 THEN process_rows(schedule, header, Tail(rows))
    ELSE LET r == process_row(schedule, DictRow(header, Head(rows)))
         IN  IF r.error # "" THEN r
             ELSE process_rows(r.schedule, header, Tail(rows))

process_schedule_csv(schedules, file, driver_id) ==
    LET known == IF driver_id \in DOMAIN schedules THEN schedules
                 ELSE (driver_id :> <<>>) @@ schedules
        r     == process_rows(known[driver_id], file.header, file.rows)
    IN  [schedules |-> (driver_id :> r.schedule) @@ known, error |-> r.error]

StoredShifts(schedules) ==
    LET s == schedules[Driver]
        RECURSIVE total(_)
        total(D) == IF D = {} THEN 0
                    ELSE LET d == CHOOSE x \in D : TRUE
                         IN  Len(s[d]) + total(D \ {d})
    IN  total(DOMAIN s)

handle_document(file) ==
    /\ update' = Update("handle_document", file)
    /\ IF file.extension = "csv"
       THEN LET r == process_schedule_csv(WORK_SCHEDULES, file, Driver)
            IN  /\ WORK_SCHEDULES' = r.schedules
                /\ reply' = IF r.error = ""
                            THEN Reply("Arbeitsplan erfolgreich aktualisiert!", <<>>, <<>>)
                            ELSE Reply("Fehler beim Verarbeiten der Datei", r.error, <<>>)
       ELSE /\ reply' = Reply("Bitte lade eine CSV-Datei hoch.", <<>>, <<>>)
            /\ UNCHANGED WORK_SCHEDULES

----------------------------------------------------------------------------
(* Callback data *)

RoutePrefix == <<"r", "o", "u", "t", "e", "_">>

NavPrefix == <<"n", "a", "v", "_">>

\* f"route_{route}"
route_data(route) == RoutePrefix \o route

\* f"nav_{route_id}_{i}_{i+1}"
nav_data(route_id, i, j) ==
    NavPrefix \o route_id \o <<"_">> \o format_int(i) \o <<"_">> \o format_int(j)

RouteButton(route) ==
    InlineKeyboardButton([label |-> "Details Linie", route |-> route],
                         route_data(route))

NavButton(route_id, stations, i) ==
    InlineKeyboardButton([label |-> "Navigation",
                          from_station |-> stations[i + 1].name,
                          to_station |-> stations[i + 2].name],
                         nav_data(route_id, i, i + 1))

----------------------------------------------------------------------------
(* /schedule *)

\* datetime.strptime(date_str, '%Y-%m-%d') accepts the text
strptime_ok(date_str) == date_str \in {"2025-04-17", "2025-04-18", "2025-04-19"}

\* the keyboard is rebuilt for every shift of the loop; the one of the last
\* shift is what the reply gets
schedule_keyboard(schedule) ==
    LET routes == schedule[Len(schedule)].routes
    IN  list([i \in 1..Len(routes) |-> RouteButton(routes[i])])

schedule_reply(date_str, schedule) ==
    IF Len(schedule) = 0
    THEN Raised("UnboundLocalError")
    ELSE Reply("Arbeitsplan", [date |-> date_str, shifts |-> schedule],
               schedule_keyboard(schedule))

schedule_command(args, today) ==
    LET date_str == IF Len(args) > 0 THEN args[1] ELSE today
    IN  /\ update' = Update("schedule_command", args)
        /\ reply' =
             IF Len(args) > 0 /\ ~strptime_ok(args[1])
             THEN Reply("Ungültiges Datumsformat", <<>>, <<>>)
             ELSE IF Driver \in DOMAIN WORK_SCHEDULES
                     /\ date_str \in DOMAIN WORK_SCHEDULES[Driver]
             THEN schedule_reply(date_str, WORK_SCHEDULES[Driver][date_str])
             ELSE Reply("Kein Arbeitsplan gefunden", [date |-> date_str], <<>>)
        /\ UNCHANGED WORK_SCHEDULES

----------------------------------------------------------------------------
(* /routes, /route and the buttons *)

routes_command ==
    /\ update' = Update("routes_command", <<>>)
    /\ reply' = Reply("Verfügbare Buslinien",
                      list([i \in 1..Len(RouteOrder) |->
                               [route |-> RouteOrder[i],
                                name |-> BUS_ROUTES[RouteOrder[i]].name]]),
                      list([i \in 1..Len(RouteOrder) |-> RouteButton(RouteOrder[i])]))
    /\ UNCHANGED WORK_SCHEDULES

\* the answer of /route and of a "route_" button for a route id
route_detail(route_id) ==
    IF route_id \in DOMAIN BUS_ROUTES
    THEN LET stations == BUS_ROUTES[route_id].stations
         IN  Reply("Details",
                   [route |-> route_id, name |-> BUS_ROUTES[route_id].name,
                    stations |-> list([i \in 1..Len(stations) |-> stations[i].name])],
                   list([i \in 1..(Len(stations) - 1) |->
                            NavButton(route_id, stations, i - 1)]))
    ELSE Reply("Buslinie nicht gefunden", [route |-> route_id], <<>>)

route_command(args) ==
    /\ update' = Update("route_command", args)
    /\ reply' = IF Len(args) = 0
                THEN Reply("Bitte gib eine Liniennummer an", <<>>, <<>>)
                ELSE route_detail(args[1])
    /\ UNCHANGED WORK_SCHEDULES

\* the answer of a "nav_" button
nav_detail(data) ==
    LET parts == split(data, "_")
    IN  IF Len(parts) < 3 THEN Raised("IndexError")
        ELSE IF ~int(parts[3]).ok THEN Raised("ValueError")
        ELSE IF Len(parts) < 4 THEN Raised("IndexError")
        ELSE IF ~int(parts[4]).ok THEN Raised("ValueError")
        ELSE LET route_id == parts[2]
                 from_idx == int(parts[3]).val
                 to_idx   == int(parts[4]).val
             IN  IF route_id \in DOMAIN BUS_ROUTES
                 THEN LET stations == BUS_ROUTES[route_id].stations
                      IN  IF ~InRange(stations, from_idx) \/ ~InRange(stations, to_idx)
                          THEN Raised("IndexError")
                          ELSE LET from_station == getitem(stations, from_idx)
                                   to_station   == getitem(stations, to_idx)
                               IN  Reply("Navigation",
                                         [route |-> route_id,
                                          from_station |-> from_station.name,
                                          to_station |-> to_station.name,
                                          directions |->
                                              get_directions(from_station.name,
                                                             to_station.name),
                                          map_link |-> get_map_link(to_station.coords)],
                                         <<>>)
                 ELSE Reply("Buslinie nicht gefunden", [route |-> route_id], <<>>)

\* button is the pressed button; the handler sees its callback_data only
button_callback(button) ==
    LET data == button.callback_data
    IN  /\ update' = Update("button_callback", button)
        /\ reply' = IF startswith(data, RoutePrefix)
                    THEN route_detail(split(data, "_")[2])
                    ELSE IF startswith(data, NavPrefix)
                    THEN nav_detail(data)
                    ELSE Reply("", <<>>, <<>>)
        /\ UNCHANGED WORK_SCHEDULES

----------------------------------------------------------------------------
(* /navigate *)

\* the loop over the stations keeps the last index whose name matches
find_station(stations, name) ==
    LET matches == {i \in 0..(Len(stations) - 1) :
                        lower_name(stations[i + 1].name) = lower_name(name)}
    IN  IF matches = {} THEN -1
        ELSE CHOOSE i \in matches : \A j \in matches : j <= i

Segment(number, current, next_station) ==
    [number |-> number, current |-> current.name, next |-> next_station.name,
     directions |-> get_directions(current.name, next_station.name),
     map_link |-> get_map_link(next_station.coords)]

\* the forward loop, range(from_idx, to_idx)
forward_segments(stations, from_idx, to_idx) ==
    list([k \in 1..(to_idx - from_idx) |->
             LET i == from_idx + k - 1
             IN  Segment(i + 1, getitem(stations, i), getitem(stations, i + 1))])

\* reverse_segments with the pairs taken as the forward loop takes them
reverse_segments_forward_pairs(stations, from_idx, to_idx) ==
    list([k \in 1..(from_idx - to_idx) |->
             LET i == from_idx - k + 1
             IN  Segment(from_idx - i + 1, getitem(stations, i - 1),
                         getitem(stations, i))])

\* the reverse loop, range(from_idx, to_idx, -1)
reverse_segments(stations, from_idx, to_idx) ==
    list([k \in 1..(from_idx - to_idx) |->
             LET i == from_idx - k + 1
             IN  Segment(from_idx - i + 1, getitem(stations, i),
                         getitem(stations, i - 1))])

navigation_segments(stations, from_idx, to_idx) ==
    IF from_idx < to_idx
    THEN forward_segments(stations, from_idx, to_idx)
    ELSE reverse_segments(stations, from_idx, to_idx)

navigate_reply(args) ==
    IF Len(args) < 3
    THEN Reply("Bitte gib eine Liniennummer, Start- und Zielstation an", <<>>, <<>>)
    ELSE LET route_id          == args[1]
             from_station_name == <<args[2]>>
             to_station_name   == SubSeq(args, 3, Len(args))
         IN  IF route_id \in DOMAIN BUS_ROUTES
             THEN LET stations == BUS_ROUTES[route_id].stations
                      from_idx == find_station(stations, from_station_name)
                      to_idx   == find_station(stations, to_station_name)
                  IN  IF from_idx = -1 \/ to_idx = -1
                      THEN Reply("Stationen nicht gefunden", <<>>, <<>>)
                      ELSE Reply("Navigation von nach",
                                 [route |-> route_id,
                                  from_station |-> from_station_name,
                                  to_station |-> to_station_name,
                                  segments |->
                                      navigation_segments(stations, from_idx, to_idx)],
                                 <<>>)
             ELSE Reply("Buslinie nicht gefunden", [route |-> route_id], <<>>)

Pending == Reply("pending", <<>>, <<>>)

\* answers the message held in update
navigate_command ==
    /\ update.handler = "navigate_command"
    /\ reply = Pending
    /\ reply' = navigate_reply(update.input)
    /\ UNCHANGED <<update, WORK_SCHEDULES>>

----------------------------------------------------------------------------
(* Inputs *)

Range(s) == {s[i] : i \in 1..Len(s)}

SeqsUpTo(S, n) == UNION {[1..k -> S] : k \in 0..n}

R99 == <<"9", "9">>

R31E == <<"3", "1", "_", "E">>

StandardHeader == <<"date", "umlauf", "start_time", "end_time", "routes">>

RowTwoRoutes == <<"2025-04-17", "U4", "08:00", "12:00", R31 \o <<",">> \o R32>>

RowOneRoute == <<"2025-04-19", "U5", "13:00", "17:00", R33>>

RowBadTime == <<"2025-04-18", "U6", "25:99", "12:00", R31>>

RowNoRoutes == <<"2025-04-19", "U7", "08:00", "12:00">>

RowUnderscore == <<"2025-04-19", "U8", "06:00", "07:00", R31E>>

RowEmptyRoutes == <<"2025-04-17", "U9", "09:00", "10:00", <<>>>>

Rows == {RowTwoRoutes, RowOneRoute, RowBadTime, RowNoRoutes, RowUnderscore,
         RowEmptyRoutes}

CsvFile(header, rows) == [extension |-> "csv", header |-> header, rows |-> rows]

Files ==
    {CsvFile(StandardHeader, rows) : rows \in SeqsUpTo(Rows, MaxRows)}
    \cup {CsvFile(<<"date", "umlauf", "start_time", "end_time">>, <<RowTwoRoutes>>),
          CsvFile(<<"datum", "umlauf", "start_time", "end_time", "routes">>,
                  <<RowOneRoute>>),
          [extension |-> "txt", header |-> StandardHeader, rows |-> <<RowOneRoute>>]}

ScheduleArgs == {<<>>, <<"2025-04-17">>, <<"2025-04-18">>, <<"2025-04-19">>,
                 <<"17.04.2025">>}

Todays == {"2025-04-18", "2025-04-20"}

RouteArgs == {<<>>, <<R31>>, <<R32>>, <<R33>>, <<R99>>, <<R31E>>}

Crafted(callback_data) ==
    InlineKeyboardButton([label |-> "crafted"], callback_data)

CraftedButtons ==
    {Crafted(nav_data(R31, 0, 3)),
     Crafted(nav_data(R31, 0, 4)),
     Crafted(nav_data(R32, 7, 1)),
     Crafted(nav_data(R99, 0, 1)),
     Crafted(NavPrefix \o R31 \o <<"_", "-", "1", "_", "0">>),
     Crafted(NavPrefix \o R31 \o <<"_", "-", "5", "_", "0">>),
     Crafted(NavPrefix \o R31 \o <<"_", "0", "_", "x">>),
     Crafted(NavPrefix \o R31 \o <<"_", "0">>),
     Crafted(route_data(R99)),
     Crafted(RoutePrefix),
     Crafted(<<"x">>)}

\* words of station names of the three routes, two of them in another
\* letter case, and a word that is part of no station name
Words == {"Hauptbahnhof", "Bismarckplatz", "Technologiepark", "Betriebshof",
          "Neuenheimer", "Feld", "Schriesheim", "HAUPTBAHNHOF", "bismarckplatz",
          "Nirgendwo"}

NavArgs ==
    {<<>>}
    \cup {<<r>> \o words : r \in {R31, R32, R33, R99},
                           words \in SeqsUpTo(Words, MaxArgs - 1)}

----------------------------------------------------------------------------
(* The bot: uploads, /schedule, /routes, /route and buttons *)

Init ==
    /\ WORK_SCHEDULES = InitialSchedules
    /\ update = Update("start", <<>>)
    /\ reply = Reply("", <<>>, <<>>)

Upload ==
    \E file \in Files :
        /\ StoredShifts(WORK_SCHEDULES) + Len(file.rows) <= MaxStored
        /\ handle_document(file)

Schedule == \E args \in ScheduleArgs, today \in Todays : schedule_command(args, today)

Routes == routes_command

Route == \E args \in RouteArgs : route_command(args)

Button ==
    \E button \in Range(reply.keyboard) \cup CraftedButtons : button_callback(button)

Next == Upload \/ Schedule \/ Routes \/ Route \/ Button

Spec == Init /\ [][Next]_vars

(* /navigate, one message per behaviour *)

InitNav ==
    /\ WORK_SCHEDULES = InitialSchedules
    /\ \E args \in NavArgs : update = Update("navigate_command", args)
    /\ reply = Pending

NextNav == navigate_command

SpecNav == InitNav /\ [][NextNav]_vars

----------------------------------------------------------------------------
(* Properties of the schedule store and of the upload *)

Bucket(schedules, date) ==
    IF date \in DOMAIN schedules[Driver] THEN schedules[Driver][date] ELSE <<>>

IsPrefix(a, b) == Len(a) <= Len(b) /\ SubSeq(b, 1, Len(a)) = a

IsUpload(u) == u.handler = "handle_document"

ReadsRows(file) == file.extension = "csv" /\ file.header = StandardHeader

\* umlauf and times of the rows of a date, in the order of the rows
RowsOfDate(rows, date) ==
    LET OfDate(row) == row[1] = date
        chosen == SelectSeq(rows, OfDate)
    IN  [i \in 1..Len(chosen) |->
            [umlauf |-> chosen[i][2], start_time |-> chosen[i][3],
             end_time |-> chosen[i][4]]]

Labels(shifts) ==
    [i \in 1..Len(shifts) |->
        [umlauf |-> shifts[i].umlauf, start_time |-> shifts[i].start_time,
         end_time |-> shifts[i].end_time]]

\* the rows up to the first one that lacks a column
RowsRead(file) ==
    LET bad == {i \in 1..Len(file.rows) : Len(file.rows[i]) < Len(StandardHeader)}
        stop == IF bad = {} THEN Len(file.rows) + 1
                ELSE CHOOSE i \in bad : \A j \in bad : i <= j
    IN  IF ReadsRows(file) THEN SubSeq(file.rows, 1, stop - 1) ELSE <<>>

\* C1: every step leaves the shifts stored for each date as a prefix of the
\* shifts stored afterwards, and what an upload adds to a date are the
\* shifts of the rows it read for that date, in the order of the rows.
C1_UploadsAppend ==
    [][\A date \in DOMAIN WORK_SCHEDULES[Driver] \cup DOMAIN WORK_SCHEDULES'[Driver] :
          LET before == Bucket(WORK_SCHEDULES, date)
              after  == Bucket(WORK_SCHEDULES', date)
          IN  /\ IsPrefix(before, after)
              /\ IF IsUpload(update')
                 THEN Labels(after) =
                        Labels(before) \o RowsOfDate(RowsRead(update'.input), date)
                 ELSE after = before]_vars

\* an upload has added two shifts behind the two the date had from the start
C1_Witness ==
    /\ IsUpload(update)
    /\ Len(update.input.rows) >= 2
    /\ Len(Bucket(WORK_SCHEDULES, "2025-04-17")) = 4
    /\ IsPrefix(Bucket(InitialSchedules, "2025-04-17"), Bucket(WORK_SCHEDULES, "2025-04-17"))

ValidTime(t) == t \in {"06:00", "07:00", "08:00", "09:00", "10:00", "12:00",
                       "13:00", "14:00", "17:00"}

WellFormed(row) ==
    Len(row) = Len(StandardHeader) /\ ValidTime(row[3]) /\ ValidTime(row[4])

\* C2: an upload stores every well-formed row of the file, before and after
\* a malformed one, stores no malformed row, and does not report success
\* when a row was malformed.
C2_BadRowDoesNotAbort ==
    [][IsUpload(update') /\ ReadsRows(update'.input) =>
          LET rows == update'.input.rows
              good == SelectSeq(rows, WellFormed)
          IN  /\ \A date \in DOMAIN WORK_SCHEDULES'[Driver] \cup {row[1] : row \in Range(rows)} :
                    Labels(Bucket(WORK_SCHEDULES', date)) =
                        Labels(Bucket(WORK_SCHEDULES, date)) \o RowsOfDate(good, date)
              /\ (Len(good) < Len(rows) =>
                    reply'.kind # "Arbeitsplan erfolgreich aktualisiert!")]_vars

JoinComma(ids) ==
    LET RECURSIVE join(_)
        join(s) == IF Len(s) = 1 THEN s[1]
                   ELSE s[1] \o <<",">> \o join(Tail(s))
    IN  join(ids)

RouteLists == SeqsUpTo(DOMAIN BUS_ROUTES, 2) \ {<<>>}

\* C3: after an upload that ran to its end, every well-formed row whose
\* routes field is a comma-joined list of catalog route ids is stored under
\* its date as a shift with the row's umlauf and times and exactly that list
\* of route ids.
C3_RowRoundTrip ==
    IsUpload(update) /\ update.input.extension = "csv"
        /\ reply.kind = "Arbeitsplan erfolgreich aktualisiert!" =>
    \A row \in Range(update.input.rows) :
        \A ids \in RouteLists :
            WellFormed(row) /\ row[5] = JoinComma(ids) =>
                \E shift \in Range(Bucket(WORK_SCHEDULES, row[1])) :
                    shift = Shift(row[2], row[3], row[4], ids)

C3_Witness ==
    /\ IsUpload(update)
    /\ reply.kind = "Arbeitsplan erfolgreich aktualisiert!"
    /\ RowTwoRoutes \in Range(update.input.rows)
    /\ RowOneRoute \in Range(update.input.rows)
    /\ Shift("U4", "08:00", "12:00", <<R31, R32>>)
           \in Range(Bucket(WORK_SCHEDULES, "2025-04-17"))

\* C10: every date of the store has at least one shift and every stored
\* shift at least one route; /schedule never fails for want of a keyboard,
\* answers a stored date with its shifts and a keyboard, and any other date
\* with the no-schedule message and no buttons.
C10_NoEmptyBuckets ==
    /\ \A date \in DOMAIN WORK_SCHEDULES[Driver] :
          /\ Len(WORK_SCHEDULES[Driver][date]) > 0
          /\ \A shift \in Range(WORK_SCHEDULES[Driver][date]) : Len(shift.routes) > 0
    /\ update.handler = "schedule_command" =>
          /\ reply.kind \in {"Ungültiges Datumsformat", "Arbeitsplan",
                             "Kein Arbeitsplan gefunden"}
          /\ Len(update.input) > 0 /\ strptime_ok(update.input[1]) =>
                reply.kind # "Ungültiges Datumsformat"
                    /\ reply.body.date = update.input[1]
          /\ reply.kind = "Arbeitsplan" =>
                /\ reply.body.date \in DOMAIN WORK_SCHEDULES[Driver]
                /\ Len(reply.keyboard) > 0
          /\ reply.kind = "Kein Arbeitsplan gefunden" =>
                /\ reply.body.date \notin DOMAIN WORK_SCHEDULES[Driver]
                /\ reply.keyboard = <<>>

\* an upload stopped at its second row after its first row made a new date
C10_Witness ==
    /\ IsUpload(update)
    /\ reply.kind = "Fehler beim Verarbeiten der Datei"
    /\ Len(update.input.rows) >= 2
    /\ update.input.rows[1][1] = "2025-04-19"
    /\ Len(Bucket(WORK_SCHEDULES, "2025-04-19")) = 1

----------------------------------------------------------------------------
(* Properties of /schedule, /route and the buttons *)

\* C5: the schedule of a date carries exactly one route button for every
\* route that any of its shifts names, and no other button.
C5_OneButtonPerRoute ==
    reply.kind = "Arbeitsplan" =>
        LET referenced == UNION {Range(shift.routes) :
                                    shift \in Range(reply.body.shifts)}
            keyboard   == reply.keyboard
        IN  /\ \A r \in referenced :
                  Cardinality({i \in 1..Len(keyboard) :
                                  keyboard[i].callback_data = route_data(r)}) = 1
            /\ \A i \in 1..Len(keyboard) :
                  \E r \in referenced : keyboard[i].callback_data = route_data(r)

\* what the route detail of a route id has to be
RouteDetailAnswers(route_id) ==
    IF route_id \in DOMAIN BUS_ROUTES
    THEN LET stations == BUS_ROUTES[route_id].stations
         IN  /\ reply.kind = "Details"
             /\ reply.body.stations = [i \in 1..Len(stations) |-> stations[i].name]
             /\ Len(reply.keyboard) = Len(stations) - 1
             /\ \A i \in 1..Len(reply.keyboard) :
                   reply.keyboard[i].callback_data = nav_data(route_id, i - 1, i)
    ELSE /\ reply.kind = "Buslinie nicht gefunden"
         /\ reply.keyboard = <<>>

\* C6: /route with a route id, and a button whose data is "route_" followed
\* by a route id, answer not-found without stations or buttons when the id
\* is not in the catalog, and otherwise list the stations in catalog order
\* with one navigate button per adjacent pair.
C6_UnknownRouteNotFound ==
    /\ update.handler = "route_command" /\ Len(update.input) > 0 =>
          RouteDetailAnswers(update.input[1])
    /\ update.handler = "button_callback"
          /\ startswith(update.input.callback_data, RoutePrefix) =>
          RouteDetailAnswers(SubSeq(update.input.callback_data,
                                    Len(RoutePrefix) + 1,
                                    Len(update.input.callback_data)))

\* C7: a navigate button whose indices are not both within
\* 0..len(stations)-1 is answered with an error message, neither with an
\* exception nor with navigation text.
C7_NavIndicesValidated ==
    update.handler = "button_callback"
        /\ startswith(update.input.callback_data, NavPrefix) =>
    LET parts == split(update.input.callback_data, "_")
    IN  Len(parts) = 4 /\ parts[2] \in DOMAIN BUS_ROUTES
            /\ int(parts[3]).ok /\ int(parts[4]).ok =>
        LET last == Len(BUS_ROUTES[parts[2]].stations) - 1
        IN  IF int(parts[3]).val \in 0..last /\ int(parts[4]).val \in 0..last
            THEN reply.kind = "Navigation"
            ELSE reply.kind \notin {"raised", "Navigation"}

\* C8: pressing a button that a handler emitted is answered for the route
\* id, or the pair of stations, that the button was built from.
C8_ActionIdsRoundTrip ==
    update.handler = "button_callback" =>
        LET text == update.input.text
        IN  /\ text.label = "Details Linie" =>
                  /\ reply.kind \in {"Details", "Buslinie nicht gefunden"}
                  /\ reply.body.route = text.route
            /\ text.label = "Navigation" =>
                  /\ reply.kind = "Navigation"
                  /\ reply.body.from_station = text.from_station
                  /\ reply.body.to_station = text.to_station

----------------------------------------------------------------------------
(* Properties of /navigate *)

Pairs(segments) ==
    [k \in 1..Len(segments) |-> <<segments[k].current, segments[k].next>>]

ReversedSwapped(pairs) ==
    [k \in 1..Len(pairs) |->
        <<pairs[Len(pairs) - k + 1][2], pairs[Len(pairs) - k + 1][1]>>]

Distance(i, j) == IF i < j THEN j - i ELSE i - j

\* the segments from station i to station j, told from the indices alone
WalksFromTo(segments, stations, i, j) ==
    /\ Len(segments) = Distance(i, j)
    /\ \A k \in 1..Len(segments) :
          LET a == IF i < j THEN i + k - 1 ELSE i - k + 1
              b == IF i < j THEN a + 1 ELSE a - 1
          IN  /\ segments[k].current = stations[a + 1].name
              /\ segments[k].next = stations[b + 1].name
              /\ segments[k].map_link = get_map_link(stations[b + 1].coords)

\* C4: the segments of a navigation from i to j are the segments from j to
\* i in reverse order with each pair swapped; both directions have |i - j|
\* segments over adjacent stations, each with the map link of the station
\* the segment leads to.
C4_DirectionSymmetric ==
    /\ \A r \in DOMAIN BUS_ROUTES :
          LET stations == BUS_ROUTES[r].stations
          IN  \A i, j \in 0..(Len(stations) - 1) :
                  i # j =>
                    /\ Pairs(navigation_segments(stations, i, j)) =
                         ReversedSwapped(Pairs(navigation_segments(stations, j, i)))
                    /\ WalksFromTo(navigation_segments(stations, i, j), stations, i, j)
    /\ reply.kind = "Navigation von nach" =>
          LET stations == BUS_ROUTES[reply.body.route].stations
              i == find_station(stations, reply.body.from_station)
              j == find_station(stations, reply.body.to_station)
          IN  i # j =>
                /\ WalksFromTo(reply.body.segments, stations, i, j)
                /\ Pairs(reply.body.segments) =
                     ReversedSwapped(Pairs(navigation_segments(stations, j, i)))

\* a navigation against the order of the stations, over the whole of route 31
C4_Witness ==
    /\ reply.kind = "Navigation von nach"
    /\ reply.body.route = R31
    /\ Len(reply.body.segments) = 3
    /\ reply.body.segments[1].current = <<"Technologiepark">>
    /\ reply.body.segments[3].next = <<"Hauptbahnhof">>

SameName(words, name) == lower_name(words) = lower_name(name)

\* C9: a message that gives a station of the route as start and a station
\* of the route as destination, in any letter case, is answered with the
\* navigation between the two; a message whose names match no such pair
\* gets the station-not-found reply; Hauptbahnhof to Bismarckplatz on route
\* 31 is one segment with the map link of Bismarckplatz.
C9_NamesResolve ==
    update.handler = "navigate_command" /\ reply # Pending
        /\ Len(update.input) >= 3 /\ update.input[1] \in DOMAIN BUS_ROUTES =>
    LET args     == update.input
        stations == BUS_ROUTES[args[1]].stations
        last     == Len(stations) - 1
        Given(n, a, b) ==
            /\ SameName(SubSeq(args, 2, n), stations[a + 1].name)
            /\ SameName(SubSeq(args, n + 1, Len(args)), stations[b + 1].name)
    IN  /\ \A n \in 2..(Len(args) - 1), a \in 0..last, b \in 0..last :
              Given(n, a, b) =>
                  /\ reply.kind = "Navigation von nach"
                  /\ WalksFromTo(reply.body.segments, stations, a, b)
        /\ (~\E n \in 2..(Len(args) - 1), a \in 0..last, b \in 0..last : Given(n, a, b)) =>
              reply.kind = "Stationen nicht gefunden"
        /\ args = <<R31, "Hauptbahnhof", "Bismarckplatz">> =>
              /\ Len(reply.body.segments) = 1
              /\ reply.body.segments[1].map_link = get_map_link(<<494094, 86947>>)

====
